---- MODULE Spec2Model ----
(***************************************************************************)
(* Model of the benchmark runner (joeferner/webserver-benchmarks):          *)
(*   - the process lifecycle manager, benchmark-runner/src/process_manager.rs *)
(*   - the concurrent execution engine, run_requests in                     *)
(*     benchmark-runner/src/main.rs                                         *)
(*                                                                         *)
(* Spec       : the process manager driven by arbitrary callers of its     *)
(*              public API (push, kill, Drop) and by the Ctrl+C handler.   *)
(* SpecEngine : one call of run_requests against a pluggable scenario.     *)
(***************************************************************************)
EXTENDS Integers, Sequences, FiniteSets, TLC

(***************************************************************************)
(* Bounds                                                                  *)
(***************************************************************************)
\* number of spawned child processes (std::process::Child handles)
MaxProcs == 2
\* largest number of slots the registry vector is allowed to grow to
MaxSlots == 3
\* largest iteration count handed to run_requests
MaxIter == 2
\* last instant of the monotonic clock (tokio::time::Instant)
MaxTime == 2

\* longest max_check_time handed to http_wait_for_url, in clock units
MaxWait == 4
\* longest check_interval handed to it
MaxInterval == 2
\* longest time one request of the probe takes (the client's timeout)
MaxLatency == 2

\* largest iteration count handed to benchmark_matrix_multiplication
MaxFixtures == 3

Proc == 1..MaxProcs
NoProc == 0

\* threads that call the manager through &self; "main" also owns it (Drop)
Main == "main"
Callers == {"main", "worker"}
\* the thread the ctrlc crate runs the handler closure on
Ctrlc == "ctrlc"
Threads == Callers \cup {Ctrlc}
NoThread == "none"

\* the two Arc<Mutex<Vec<..>>> that ProcessManager::new allocates
SelfReg == "self"
HandlerReg == "handler"
Registries == {SelfReg, HandlerReg}

VARIABLES
    \* ---- operating system / Child handles ----
    procState,      \* Proc -> "Running" | "Exited"        (OS liveness)
    reaped,         \* Proc -> BOOLEAN  exit status collected into the Child
    signals,        \* Proc -> number of kill signals sent by Child::kill
    poisoned,       \* set of Proc whose Mutex<Child> is poisoned
    childLock,      \* Proc -> holder of the Mutex<Child>
    \* ---- the registries ----
    registry,       \* Registries -> Seq(Proc)   Vec<Option<Arc<Mutex<Child>>>>
    regLock,        \* Registries -> holder of the outer Mutex
    \* ---- threads ----
    pc,             \* Threads -> label
    arg,            \* Threads -> child handed to kill
    idx,            \* Threads -> slot the position() scan is at
    lockErr,        \* Threads -> lock_error flag of kill
    cur,            \* Threads -> child handed to kill_process
    ret,            \* Threads -> "kill" | "kps": caller of kill_process
    \* ---- tool process ----
    mgr,            \* "live" | "dropping" | "dropped" | "panicked"
    exited,         \* std::process::exit(0) has run
    \* ---- observation only ----
    ev,             \* the call that returned in the last step, if any
    everRegistered, \* processes ever appended by push
    regAtInterrupt, \* processes registered at the moment of the interrupt
    regAtDrop,      \* processes registered when Drop started
    liveAtDrop,     \* processes still running when Drop started
    regAtLock,      \* Threads -> registry contents when the call locked it
    exitedAtCall,   \* Threads -> the child had exited when kill was called
    sentInCall,     \* Threads -> kill signals sent by the current call
    \* ---- run_requests ----
    epc,            \* where run_requests is
    iterations,     \* its argument
    now,            \* the monotonic clock
    callCount,      \* calls of Benchmark::make_request so far
    checkCount,     \* calls of Benchmark::check_response so far
    warm,           \* what the warm-up produced, once it is past its request
    batchStart,     \* let start = Instant::now()
    batchTime,      \* let time = start.elapsed()
    taskState,      \* spawned tasks: "spawned" | "started" | "sent" | "done"
    taskStart,      \* each task's own start
    taskOut,        \* what each JoinHandle resolves to
    completed,      \* the tasks in the order they finished
    runResult,      \* what run_requests returned
    warmEnd,        \* the instant the warm-up check returned
    lastEnd,        \* the instant a task last finished
    \* ---- run_benchmarks / run_benchmark ----
    spc,            \* where the orchestrator is
    tgt,            \* index of the target of the for loop
    scenResults,    \* results: the scenario results of the current target
    allResults,     \* all_results: target name -> BenchmarkJsonResult
    child,          \* target name -> state of its spawned subprocess
    suiteReg,       \* the targets whose child the manager holds
    attempts,       \* the targets run_benchmark was called for, in order
    recorded,       \* the targets inserted into all_results, in order
    scenarioRuns,   \* the <<target, scenario>> pairs that were run
    transportFailed,\* those of them that returned Err
    \* ---- http_wait_for_url ----
    ppc,            \* where the probe is
    checkInterval,  \* its argument check_interval
    maxCheckTime,   \* its argument max_check_time
    elapsed,        \* start.elapsed()
    probes,         \* requests sent so far
    firstUp,        \* elapsed time at which a request first succeeded, or -1
    probeResult,    \* what http_wait_for_url returned
    \* ---- benchmark_matrix_multiplication ----
    mpc,            \* where the matrix scenario is
    mIterations,    \* its argument iterations
    matrices,       \* the Vec matrices: each matrix stands as its seed
    expected,       \* the Vec expected: each product as its two factors
    mTask,          \* iteration -> "spawned" | "sent" | "done" | "panicked"
    reads           \* the index expressions evaluated so far

osVars == <<procState, reaped, signals>>
locals == <<arg, idx, lockErr, cur, ret, regAtLock, exitedAtCall, sentInCall>>
history == <<everRegistered, regAtInterrupt, regAtDrop, liveAtDrop>>

pmVars == <<osVars, poisoned, childLock, registry, regLock, pc, locals, mgr,
            exited, ev, history>>

\* the instants observed during a run
stamps == <<warmEnd, lastEnd>>

engineVars == <<epc, iterations, now, callCount, checkCount, warm, batchStart,
                batchTime, taskState, taskStart, taskOut, completed, runResult,
                stamps>>

suiteVars == <<spc, tgt, scenResults, allResults, child, suiteReg, attempts,
               recorded, scenarioRuns, transportFailed>>

probeVars == <<ppc, checkInterval, maxCheckTime, elapsed, probes, firstUp,
               probeResult>>

matrixVars == <<mpc, mIterations, matrices, expected, mTask, reads>>

\* what an action of one part leaves alone
nonManager == <<engineVars, suiteVars, probeVars, matrixVars>>
nonEngine == <<pmVars, suiteVars, probeVars, matrixVars>>
nonSuite == <<pmVars, engineVars, probeVars, matrixVars>>
nonProbe == <<pmVars, engineVars, suiteVars, matrixVars>>
nonMatrix == <<pmVars, engineVars, suiteVars, probeVars>>

vars == <<pmVars, engineVars, suiteVars, probeVars, matrixVars>>

(***************************************************************************)
(* Results of the manager's operations (Result<(), ProcessManagerError>)   *)
(***************************************************************************)
OkResult == [tag |-> "Ok", pid |-> NoProc]
LockError == [tag |-> "Lock", pid |-> NoProc]
\* a ChildNotFound that loses the identifier
ChildNotFoundAnonymous(pid) == [tag |-> "ChildNotFound", pid |-> NoProc]
ChildNotFound(pid) == [tag |-> "ChildNotFound", pid |-> pid]

\* what the caller of a returning call can see of it
NoEvent == [op |-> "none"]
Returned(op, t, c, res, before, wasExited, sent) ==
    [op |-> op, thread |-> t, child |-> c, result |-> res,
     regBefore |-> before, exitedAtCall |-> wasExited, sent |-> sent]

(***************************************************************************)
(* Results of a scenario invocation and of run_requests                    *)
(***************************************************************************)
\* tag : "Ok" | "InvalidStatusCode" | "InvalidResponse"   BenchmarkResult
\*       "Err"    the invocation returned Err(BenchmarkError)
\*       "Panic"  the invocation panicked
\* of  : 0 for the warm-up, i for the i-th spawned task (iteration i - 1)
Outcome(tag, info, of) == [tag |-> tag, info |-> info, of |-> of]
NoOutcome == Outcome("none", "", 0)

\* what check_response can produce for invocation `of`
CheckOutcomes(of) ==
    { Outcome("Ok", "", of),
      Outcome("InvalidStatusCode", "500", of),
      Outcome("InvalidResponse", "unexpected body", of),
      Outcome("Err", "body read failed", of),
      Outcome("Panic", "task panicked", of) }

\* what make_request can produce: a response, Err(reqwest::Error), a panic
RequestOutcomes(of) ==
    { Outcome("Ok", "", of),
      Outcome("Err", "connection failed", of),
      Outcome("Panic", "task panicked", of) }

\* Result<BenchmarkResult, BenchmarkError> of run_requests
\* ret : "value" for Ok(..), "error" for Err(..), "panic" for an unwinding
RunResult(r, out, time, iters) ==
    [ret |-> r, out |-> out, time |-> time, iterations |-> iters]
NoRunResult == RunResult("none", NoOutcome, 0, 0)

\* the arm `BenchmarkResult::Ok(_) => {}` of the warm-up match
WarmupPassesStatus(o) == o.tag \in {"Ok", "InvalidStatusCode"}
WarmupPasses(o) == o.tag = "Ok"

\* format!("one or more requests failed: {err}")
RequestsFailed(o) ==
    Outcome("InvalidResponse", "one or more requests failed: " \o o.info, o.of)

\* a loop that looks at the first result only
FirstFailedHeadOnly(results) ==
    IF Len(results) >= 1 /\ results[1].tag # "Ok" THEN 1 ELSE 0

\* a loop over the results in the order the tasks finished
FirstFailedCompletionOrder(results) ==
    IF \E i \in 1..Len(results) : results[i].tag # "Ok"
    THEN LET k == CHOOSE k \in 1..Len(completed) :
                      /\ results[completed[k]].tag # "Ok"
                      /\ \A j \in 1..(k - 1) : results[completed[j]].tag = "Ok"
         IN completed[k]
    ELSE 0

\* the for loop over the results of join_all, which come in task order:
\* the first result that is not BenchmarkResult::Ok decides
FirstFailed(results) ==
    IF \E i \in 1..Len(results) : results[i].tag # "Ok"
    THEN CHOOSE i \in 1..Len(results) :
            /\ results[i].tag # "Ok"
            /\ \A j \in 1..(i - 1) : results[j].tag = "Ok"
    ELSE 0

\* a reduction that counts the warm-up among the iterations
ReduceCountsWarmup(results, time, iters) ==
    LET f == FirstFailed(results) IN
    IF f = 0
    THEN RunResult("value", Outcome("Ok", "", 0), time, iters + 1)
    ELSE IF results[f].tag \in {"Err", "Panic"}
    THEN RunResult("value", RequestsFailed(results[f]), 0, 0)
    ELSE RunResult("value", results[f], 0, 0)

\* a reduction that folds every failure into the generic message
ReduceFoldsAll(results, time, iters) ==
    LET f == FirstFailed(results) IN
    IF f = 0
    THEN RunResult("value", Outcome("Ok", "", 0), time, iters)
    ELSE RunResult("value", RequestsFailed(results[f]), 0, 0)

\* a reduction that hands a task's Err on with `?`
ReducePropagatesErr(results, time, iters) ==
    LET f == FirstFailed(results) IN
    IF f = 0
    THEN RunResult("value", Outcome("Ok", "", 0), time, iters)
    ELSE IF results[f].tag = "Err"
    THEN RunResult("error", results[f], 0, 0)
    ELSE IF results[f].tag = "Panic"
    THEN RunResult("value", RequestsFailed(results[f]), 0, 0)
    ELSE RunResult("value", results[f], 0, 0)

Reduce(results, time, iters) ==
    LET f == FirstFailed(results) IN
    IF f = 0
    THEN RunResult("value", Outcome("Ok", "", 0), time, iters)
    ELSE IF results[f].tag \in {"Err", "Panic"}
    THEN RunResult("value", RequestsFailed(results[f]), 0, 0)
    ELSE RunResult("value", results[f], 0, 0)

(***************************************************************************)
(* Vec helpers                                                             *)
(***************************************************************************)
\* a remove that is off by one: it drops the slot after pos
RemoveAfter(s, pos) ==
    [i \in 1..(Len(s) - 1) |-> IF i <= pos THEN s[i] ELSE s[i + 1]]

\* Vec::remove(pos): the elements after pos shift down by one
RemoveAt(s, pos) ==
    [i \in 1..(Len(s) - 1) |-> IF i < pos THEN s[i] ELSE s[i + 1]]

\* Vec::pop(): the vector without its last element
PopLast(s) == SubSeq(s, 1, Len(s) - 1)

\* the registry a thread works on: the handler closure captured the Arc that
\* new() allocated first, the manager holds the one Default::default() made
RegOf(t) == IF t = Ctrlc THEN HandlerReg ELSE SelfReg

\* processes held in occupied slots
Occupants(s) == {s[i] : i \in 1..Len(s)}
Registered(r) == Occupants(registry[r])

\* the closure of position(): c.id() == pid
MatchesOther(c, pid) == c # pid
Matches(c, pid) == c = pid

\* faulty probes: one that never sees an exit, one that always sees one
TryWaitNeverProbes(p) == {"None"}
TryWaitTakesRunningForExited(p) == {"Some"}

\* Child::try_wait: a cached status or a zombie yields Ok(Some(status)), a
\* running child yields Ok(None); waitpid fails only for a child that is gone
TryWaitOutcomes(p) ==
    IF reaped[p] THEN {"Some"}
    ELSE IF procState[p] = "Running" THEN {"None"}
    ELSE {"Some", "Err"}

(***************************************************************************)
(* Initial state: ProcessManager::new has run, the children are spawned    *)
(***************************************************************************)
Init ==
    /\ procState = [p \in Proc |-> "Running"]
    /\ reaped = [p \in Proc |-> FALSE]
    /\ signals = [p \in Proc |-> 0]
    /\ poisoned = {}
    /\ childLock = [p \in Proc |-> NoThread]
    /\ registry = [r \in Registries |-> <<>>]
    /\ regLock = [r \in Registries |-> NoThread]
    /\ pc = [t \in Threads |-> IF t = Ctrlc THEN "h_wait" ELSE "idle"]
    /\ arg = [t \in Threads |-> NoProc]
    /\ idx = [t \in Threads |-> 0]
    /\ lockErr = [t \in Threads |-> FALSE]
    /\ cur = [t \in Threads |-> NoProc]
    /\ ret = [t \in Threads |-> "none"]
    /\ mgr = "live"
    /\ exited = FALSE
    /\ ev = NoEvent
    /\ everRegistered = {}
    /\ regAtInterrupt = {}
    /\ regAtDrop = {}
    /\ liveAtDrop = {}
    /\ regAtLock = [t \in Threads |-> <<>>]
    /\ exitedAtCall = [t \in Threads |-> FALSE]
    /\ sentInCall = [t \in Threads |-> 0]
    \* run_requests is not part of this specification
    /\ epc = "off"
    /\ iterations = 0
    /\ now = 0
    /\ callCount = 0
    /\ checkCount = 0
    /\ warm = NoOutcome
    /\ batchStart = 0
    /\ batchTime = 0
    /\ taskState = <<>>
    /\ taskStart = <<>>
    /\ taskOut = <<>>
    /\ completed = <<>>
    /\ runResult = NoRunResult
    /\ warmEnd = 0
    /\ lastEnd = 0
    \* the orchestrator is not part of this specification
    /\ spc = "off"
    /\ tgt = 0
    /\ scenResults = <<>>
    /\ allResults = <<>>
    /\ child = [n \in {} |-> "none"]
    /\ suiteReg = <<>>
    /\ attempts = <<>>
    /\ recorded = <<>>
    /\ scenarioRuns = {}
    /\ transportFailed = {}
    \* the readiness probe is not part of this specification
    /\ ppc = "off"
    /\ checkInterval = 0
    /\ maxCheckTime = 0
    /\ elapsed = 0
    /\ probes = 0
    /\ firstUp = -1
    /\ probeResult = "none"
    \* the matrix scenario is not part of this specification
    /\ mpc = "off"
    /\ mIterations = 0
    /\ matrices = <<>>
    /\ expected = <<>>
    /\ mTask = <<>>
    /\ reads = {}

\* a call of thread t returns: its frame is gone
ClearLocals(t) ==
    /\ arg' = [arg EXCEPT ![t] = NoProc]
    /\ idx' = [idx EXCEPT ![t] = 0]
    /\ lockErr' = [lockErr EXCEPT ![t] = FALSE]
    /\ cur' = [cur EXCEPT ![t] = NoProc]
    /\ ret' = [ret EXCEPT ![t] = "none"]
    /\ regAtLock' = [regAtLock EXCEPT ![t] = <<>>]
    /\ exitedAtCall' = [exitedAtCall EXCEPT ![t] = FALSE]
    /\ sentInCall' = [sentInCall EXCEPT ![t] = 0]

(***************************************************************************)
(* Environment: a running child may exit on its own at any time            *)
(***************************************************************************)
SelfExit(p) ==
    /\ ~exited
    /\ procState[p] = "Running"
    /\ procState' = [procState EXCEPT ![p] = "Exited"]
    /\ ev' = NoEvent
    /\ UNCHANGED <<reaped, signals, poisoned, childLock, registry, regLock,
                   pc, locals, mgr, exited, history>>
    /\ UNCHANGED nonManager

(***************************************************************************)
(* ProcessManager::push: lock self.processes, append Some(child), unlock   *)
(***************************************************************************)
push(t, c) ==
    /\ ~exited /\ mgr = "live"
    /\ pc[t] = "idle"
    /\ regLock[SelfReg] = NoThread
    /\ Len(registry[SelfReg]) < MaxSlots
    /\ registry' = [registry EXCEPT ![SelfReg] = Append(@, c)]
    /\ everRegistered' = everRegistered \cup {c}
    /\ ev' = Returned("push", t, c, OkResult, registry[SelfReg],
                      procState[c] = "Exited", 0)
    /\ UNCHANGED <<osVars, poisoned, childLock, regLock, pc, locals, mgr,
                   exited, regAtInterrupt, regAtDrop, liveAtDrop>>
    /\ UNCHANGED nonManager

(***************************************************************************)
(* ProcessManager::kill                                                    *)
(***************************************************************************)
\* kill returns res to its caller; the registry guard, if taken, is dropped
KillReturn(t, res) ==
    /\ pc' = [pc EXCEPT ![t] = "idle"]
    /\ regLock' = [regLock EXCEPT
                     ![SelfReg] = IF @ = t THEN NoThread ELSE @]
    /\ ev' = Returned("kill", t, arg[t], res, regAtLock[t], exitedAtCall[t],
                      sentInCall[t])
    /\ ClearLocals(t)

\* a kill that binds the guard of child.lock() and keeps it to its end
kill_keeps_child_guard(t, c) ==
    /\ ~exited /\ mgr = "live"
    /\ pc[t] = "idle"
    /\ childLock[c] = NoThread
    /\ c \notin poisoned
    /\ childLock' = [childLock EXCEPT ![c] = t]
    /\ pc' = [pc EXCEPT ![t] = "kill_lock"]
    /\ arg' = [arg EXCEPT ![t] = c]
    /\ exitedAtCall' = [exitedAtCall EXCEPT
                          ![t] = (procState[c] = "Exited")]
    /\ ev' = NoEvent
    /\ UNCHANGED <<idx, lockErr, cur, ret, regAtLock, sentInCall>>
    /\ UNCHANGED <<osVars, poisoned, registry, regLock, mgr, exited, history>>
    /\ UNCHANGED nonManager

\* child.lock()?.id(): the guard is a temporary, released with the statement
kill(t, c) ==
    /\ ~exited /\ mgr = "live"
    /\ pc[t] = "idle"
    /\ childLock[c] = NoThread
    /\ IF c \in poisoned
       THEN /\ ev' = Returned("kill", t, c, LockError, <<>>,
                              procState[c] = "Exited", 0)
            /\ UNCHANGED <<pc, locals>>
       ELSE /\ pc' = [pc EXCEPT ![t] = "kill_lock"]
            /\ arg' = [arg EXCEPT ![t] = c]
            /\ exitedAtCall' = [exitedAtCall EXCEPT
                                  ![t] = (procState[c] = "Exited")]
            /\ ev' = NoEvent
            /\ UNCHANGED <<idx, lockErr, cur, ret, regAtLock, sentInCall>>
    /\ UNCHANGED <<osVars, poisoned, childLock, registry, regLock, mgr,
                   exited, history>>
    /\ UNCHANGED nonManager

\* let mut children = self.processes.lock()?  (held until kill returns)
kill_lock(t) ==
    /\ ~exited
    /\ pc[t] = "kill_lock"
    /\ regLock[SelfReg] = NoThread
    /\ regLock' = [regLock EXCEPT ![SelfReg] = t]
    /\ regAtLock' = [regAtLock EXCEPT ![t] = registry[SelfReg]]
    /\ idx' = [idx EXCEPT ![t] = 1]
    /\ lockErr' = [lockErr EXCEPT ![t] = FALSE]
    /\ pc' = [pc EXCEPT ![t] = "kill_scan"]
    /\ ev' = NoEvent
    /\ UNCHANGED <<osVars, poisoned, childLock, registry, arg, cur, ret,
                   exitedAtCall, sentInCall, mgr, exited, history>>
    /\ UNCHANGED nonManager

\* one step of children.iter().position(..): lock the slot's child, compare
\* its id with pid, unlock; at the end of the scan decide what kill does
kill_scan(t) ==
    /\ ~exited
    /\ pc[t] = "kill_scan"
    /\ IF idx[t] > Len(registry[SelfReg])
       THEN \* position() returned None
            /\ KillReturn(t, IF lockErr[t] THEN LockError
                             ELSE ChildNotFound(arg[t]))
            /\ UNCHANGED registry
       ELSE LET c == registry[SelfReg][idx[t]] IN
            /\ childLock[c] = NoThread
            /\ IF c \in poisoned
               THEN \* Err(err): lock_error = true, the closure answers false
                    /\ lockErr' = [lockErr EXCEPT ![t] = TRUE]
                    /\ idx' = [idx EXCEPT ![t] = @ + 1]
                    /\ ev' = NoEvent
                    /\ UNCHANGED <<registry, regLock, pc, arg, cur, ret,
                                   regAtLock, exitedAtCall, sentInCall>>
               ELSE IF ~Matches(c, arg[t])
               THEN /\ idx' = [idx EXCEPT ![t] = @ + 1]
                    /\ ev' = NoEvent
                    /\ UNCHANGED <<registry, regLock, pc, arg, lockErr, cur,
                                   ret, regAtLock, exitedAtCall, sentInCall>>
               ELSE IF lockErr[t]
               THEN \* position() returned Some, but lock_error is set
                    /\ KillReturn(t, LockError)
                    /\ UNCHANGED registry
               ELSE \* children.remove(pos), then kill_process(child)
                    /\ registry' = [registry EXCEPT
                                      ![SelfReg] = RemoveAt(@, idx[t])]
                    /\ cur' = [cur EXCEPT ![t] = c]
                    /\ ret' = [ret EXCEPT ![t] = "kill"]
                    /\ pc' = [pc EXCEPT ![t] = "kp_lock"]
                    /\ ev' = NoEvent
                    /\ UNCHANGED <<regLock, arg, idx, lockErr, regAtLock,
                                   exitedAtCall, sentInCall>>
    /\ UNCHANGED <<osVars, poisoned, childLock, mgr, exited, history>>
    /\ UNCHANGED nonManager

(***************************************************************************)
(* kill_process, called by kill and by kill_processes                      *)
(***************************************************************************)
\* kill_process hands res back to its caller:
\*   kill            returns res
\*   kill_processes  loops on Ok; on Err it drops its guard and returns, and
\*                   the caller's unwrap() panics (in Drop, or in the handler
\*                   before it reaches exit)
KpReturn(t, res) ==
    IF ret[t] = "kill"
    THEN KillReturn(t, res) /\ UNCHANGED mgr
    ELSE IF res = OkResult
    THEN /\ pc' = [pc EXCEPT ![t] = "kps_pop"]
         /\ ev' = NoEvent
         /\ UNCHANGED <<regLock, locals, mgr>>
    ELSE /\ regLock' = [regLock EXCEPT ![RegOf(t)] = NoThread]
         /\ pc' = [pc EXCEPT ![t] = IF t = Ctrlc THEN "h_dead" ELSE "idle"]
         /\ mgr' = IF t = Ctrlc THEN mgr ELSE "panicked"
         /\ ev' = Returned("kill_processes", t, cur[t], res, regAtLock[t],
                           FALSE, sentInCall[t])
         /\ ClearLocals(t)

\* let mut process = process.lock()?
kp_lock(t) ==
    /\ ~exited
    /\ pc[t] = "kp_lock"
    /\ childLock[cur[t]] = NoThread
    /\ IF cur[t] \in poisoned
       THEN /\ KpReturn(t, LockError)
            /\ UNCHANGED childLock
       ELSE /\ childLock' = [childLock EXCEPT ![cur[t]] = t]
            /\ pc' = [pc EXCEPT ![t] = "kp_try_wait"]
            /\ ev' = NoEvent
            /\ UNCHANGED <<regLock, locals, mgr>>
    /\ UNCHANGED <<osVars, poisoned, registry, exited, history>>
    /\ UNCHANGED nonManager

\* match process.try_wait()
kp_try_wait(t) ==
    /\ ~exited
    /\ pc[t] = "kp_try_wait"
    /\ \E o \in TryWaitOutcomes(cur[t]) :
         \/ /\ o = "Some"     \* already exited: logged, nothing else
            /\ reaped' = [reaped EXCEPT ![cur[t]] = TRUE]
            /\ childLock' = [childLock EXCEPT ![cur[t]] = NoThread]
            /\ KpReturn(t, OkResult)
         \/ /\ o = "None"     \* still running: go on to kill it
            /\ pc' = [pc EXCEPT ![t] = "kp_kill"]
            /\ ev' = NoEvent
            /\ UNCHANGED <<reaped, childLock, regLock, locals, mgr>>
         \/ /\ o = "Err"      \* logged, nothing else
            /\ childLock' = [childLock EXCEPT ![cur[t]] = NoThread]
            /\ KpReturn(t, OkResult)
            /\ UNCHANGED reaped
    /\ UNCHANGED <<procState, signals, poisoned, registry, exited, history>>
    /\ UNCHANGED nonManager

\* let _ = process.kill(): the signal is sent, its result is dropped
kp_kill(t) ==
    /\ ~exited
    /\ pc[t] = "kp_kill"
    /\ signals' = [signals EXCEPT ![cur[t]] = @ + 1]
    /\ sentInCall' = [sentInCall EXCEPT ![t] = @ + 1]
    /\ procState' = [procState EXCEPT ![cur[t]] = "Exited"]
    /\ pc' = [pc EXCEPT ![t] = "kp_wait"]
    /\ ev' = NoEvent
    /\ UNCHANGED <<reaped, poisoned, childLock, registry, regLock, arg, idx,
                   lockErr, cur, ret, regAtLock, exitedAtCall, mgr, exited,
                   history>>
    /\ UNCHANGED nonManager

\* let _ = process.wait(): blocks until the child has exited; Ok(())
kp_wait(t) ==
    /\ ~exited
    /\ pc[t] = "kp_wait"
    /\ procState[cur[t]] = "Exited"
    /\ reaped' = [reaped EXCEPT ![cur[t]] = TRUE]
    /\ childLock' = [childLock EXCEPT ![cur[t]] = NoThread]
    /\ KpReturn(t, OkResult)
    /\ UNCHANGED <<procState, signals, poisoned, registry, exited, history>>
    /\ UNCHANGED nonManager

(***************************************************************************)
(* kill_processes, called by Drop and by the Ctrl+C handler                *)
(***************************************************************************)
\* let mut processes = processes.lock()?  (held until kill_processes returns)
kps_lock(t) ==
    /\ ~exited
    /\ pc[t] = "kps_lock"
    /\ regLock[RegOf(t)] = NoThread
    /\ regLock' = [regLock EXCEPT ![RegOf(t)] = t]
    /\ regAtLock' = [regAtLock EXCEPT ![t] = registry[RegOf(t)]]
    /\ pc' = [pc EXCEPT ![t] = "kps_pop"]
    /\ ev' = NoEvent
    /\ UNCHANGED <<osVars, poisoned, childLock, registry, arg, idx, lockErr,
                   cur, ret, exitedAtCall, sentInCall, mgr, exited, history>>
    /\ UNCHANGED nonManager

\* while let Some(process) = processes.pop() { kill_process(process)?; }
kps_pop(t) ==
    /\ ~exited
    /\ pc[t] = "kps_pop"
    /\ IF registry[RegOf(t)] = <<>>
       THEN \* Ok(()): the guard is dropped, the caller's unwrap() passes
            /\ regLock' = [regLock EXCEPT ![RegOf(t)] = NoThread]
            /\ pc' = [pc EXCEPT ![t] = IF t = Ctrlc THEN "h_exit" ELSE "idle"]
            /\ mgr' = IF t = Ctrlc THEN mgr ELSE "dropped"
            /\ ev' = Returned("kill_processes", t, NoProc, OkResult,
                              regAtLock[t], FALSE, sentInCall[t])
            /\ ClearLocals(t)
            /\ UNCHANGED registry
       ELSE /\ cur' = [cur EXCEPT ![t] =
                         registry[RegOf(t)][Len(registry[RegOf(t)])]]
            /\ registry' = [registry EXCEPT ![RegOf(t)] = PopLast(@)]
            /\ ret' = [ret EXCEPT ![t] = "kps"]
            /\ pc' = [pc EXCEPT ![t] = "kp_lock"]
            /\ ev' = NoEvent
            /\ UNCHANGED <<regLock, mgr, arg, idx, lockErr, regAtLock,
                           exitedAtCall, sentInCall>>
    /\ UNCHANGED <<osVars, poisoned, childLock, exited, history>>
    /\ UNCHANGED nonManager

\* impl Drop for ProcessManager: needs &mut self, so no call is in progress
drop ==
    /\ ~exited /\ mgr = "live"
    /\ \A t \in Callers : pc[t] = "idle"
    /\ mgr' = "dropping"
    /\ regAtDrop' = Registered(SelfReg)
    /\ liveAtDrop' = {p \in Proc : procState[p] = "Running"}
    /\ pc' = [pc EXCEPT ![Main] = "kps_lock"]
    /\ ev' = NoEvent
    /\ UNCHANGED <<osVars, poisoned, childLock, registry, regLock, locals,
                   exited, everRegistered, regAtInterrupt>>
    /\ UNCHANGED nonManager

(***************************************************************************)
(* The Ctrl+C handler installed by ProcessManager::new                     *)
(***************************************************************************)
\* the interrupt arrives: the ctrlc thread starts the closure, whose first
\* statement is kill_processes(my_processes.clone())
interrupt ==
    /\ ~exited
    /\ pc[Ctrlc] = "h_wait"
    /\ regAtInterrupt' = Registered(SelfReg)
    /\ pc' = [pc EXCEPT ![Ctrlc] = "kps_lock"]
    /\ ev' = NoEvent
    /\ UNCHANGED <<osVars, poisoned, childLock, registry, regLock, locals,
                   mgr, exited, everRegistered, regAtDrop, liveAtDrop>>
    /\ UNCHANGED nonManager

\* std::process::exit(0): the tool process ends, no destructor runs
handler_exit ==
    /\ ~exited
    /\ pc[Ctrlc] = "h_exit"
    /\ exited' = TRUE
    /\ pc' = [pc EXCEPT ![Ctrlc] = "h_done"]
    /\ ev' = NoEvent
    /\ UNCHANGED <<osVars, poisoned, childLock, registry, regLock, locals,
                   mgr, history>>
    /\ UNCHANGED nonManager

Next ==
    \/ \E p \in Proc : SelfExit(p)
    \/ \E t \in Callers, c \in Proc : push(t, c)
    \/ \E t \in Callers, c \in Proc : kill(t, c)
    \/ \E t \in Callers : kill_lock(t)
    \/ \E t \in Callers : kill_scan(t)
    \/ \E t \in Threads : kp_lock(t)
    \/ \E t \in Threads : kp_try_wait(t)
    \/ \E t \in Threads : kp_kill(t)
    \/ \E t \in Threads : kp_wait(t)
    \/ \E t \in Threads : kps_lock(t)
    \/ \E t \in Threads : kps_pop(t)
    \/ drop
    \/ interrupt
    \/ handler_exit

Spec == Init /\ [][Next]_vars

\* one step of a call in progress on thread t
Step(t) ==
    \/ kill_lock(t)
    \/ kill_scan(t)
    \/ kp_lock(t)
    \/ kp_try_wait(t)
    \/ kp_kill(t)
    \/ kp_wait(t)
    \/ kps_lock(t)
    \/ kps_pop(t)

\* the manager's calls, its teardown and the Ctrl+C handler, among children
\* that end only by being killed
NextFair ==
    \/ \E t \in Callers, c \in Proc : push(t, c)
    \/ \E t \in Callers, c \in Proc : kill(t, c)
    \/ \E t \in Callers : kill_lock(t)
    \/ \E t \in Callers : kill_scan(t)
    \/ \E t \in Threads : kp_lock(t)
    \/ \E t \in Threads : kp_try_wait(t)
    \/ \E t \in Threads : kp_kill(t)
    \/ \E t \in Threads : kp_wait(t)
    \/ \E t \in Threads : kps_lock(t)
    \/ \E t \in Threads : kps_pop(t)
    \/ drop
    \/ interrupt
    \/ handler_exit

\* every thread is scheduled, and a thread blocked in Mutex::lock gets the
\* lock if it is free again and again (no thread is starved of a lock)
SpecFair ==
    Init /\ [][NextFair]_vars /\ \A t \in Threads : SF_vars(Step(t))

(***************************************************************************)
(* The manager among clients that may poison a child's Mutex               *)
(***************************************************************************)
\* a holder of the Arc<Mutex<Child>> panics with the child locked: from now
\* on lock() of that Mutex returns Err(PoisonError), which kill_process and
\* kill turn into ProcessManagerError::Lock
poison(p) ==
    /\ ~exited
    /\ p \notin poisoned
    /\ childLock[p] = NoThread
    /\ poisoned' = poisoned \cup {p}
    /\ ev' = NoEvent
    /\ UNCHANGED <<osVars, childLock, registry, regLock, pc, locals, mgr,
                   exited, history>>
    /\ UNCHANGED nonManager

\* the callers and the teardown; the Ctrl+C handler, whose registry holds
\* no child, is left out
NextPoison ==
    \/ \E p \in Proc : SelfExit(p)
    \/ \E p \in Proc : poison(p)
    \/ \E t \in Callers, c \in Proc : push(t, c)
    \/ \E t \in Callers, c \in Proc : kill(t, c)
    \/ \E t \in Callers : kill_lock(t)
    \/ \E t \in Callers : kill_scan(t)
    \/ \E t \in Callers : kp_lock(t)
    \/ \E t \in Callers : kp_try_wait(t)
    \/ \E t \in Callers : kp_kill(t)
    \/ \E t \in Callers : kp_wait(t)
    \/ \E t \in Callers : kps_lock(t)
    \/ \E t \in Callers : kps_pop(t)
    \/ drop

SpecPoison == Init /\ [][NextPoison]_vars

(***************************************************************************)
(* run_requests(iterations, benchmark)                                     *)
(***************************************************************************)
InitEngine ==
    /\ epc = "warm_request"
    /\ iterations \in 0..MaxIter
    /\ now = 0
    /\ callCount = 0
    /\ checkCount = 0
    /\ warm = NoOutcome
    /\ batchStart = 0
    /\ batchTime = 0
    /\ taskState = <<>>
    /\ taskStart = <<>>
    /\ taskOut = <<>>
    /\ completed = <<>>
    /\ runResult = NoRunResult
    /\ warmEnd = 0
    /\ lastEnd = 0
    \* the process manager is not part of this specification
    /\ procState = [p \in Proc |-> "Running"]
    /\ reaped = [p \in Proc |-> FALSE]
    /\ signals = [p \in Proc |-> 0]
    /\ poisoned = {}
    /\ childLock = [p \in Proc |-> NoThread]
    /\ registry = [r \in Registries |-> <<>>]
    /\ regLock = [r \in Registries |-> NoThread]
    /\ pc = [t \in Threads |-> IF t = Ctrlc THEN "h_wait" ELSE "idle"]
    /\ arg = [t \in Threads |-> NoProc]
    /\ idx = [t \in Threads |-> 0]
    /\ lockErr = [t \in Threads |-> FALSE]
    /\ cur = [t \in Threads |-> NoProc]
    /\ ret = [t \in Threads |-> "none"]
    /\ mgr = "live"
    /\ exited = FALSE
    /\ ev = NoEvent
    /\ everRegistered = {}
    /\ regAtInterrupt = {}
    /\ regAtDrop = {}
    /\ liveAtDrop = {}
    /\ regAtLock = [t \in Threads |-> <<>>]
    /\ exitedAtCall = [t \in Threads |-> FALSE]
    /\ sentInCall = [t \in Threads |-> 0]
    \* the orchestrator is not part of this specification
    /\ spc = "off"
    /\ tgt = 0
    /\ scenResults = <<>>
    /\ allResults = <<>>
    /\ child = [n \in {} |-> "none"]
    /\ suiteReg = <<>>
    /\ attempts = <<>>
    /\ recorded = <<>>
    /\ scenarioRuns = {}
    /\ transportFailed = {}
    \* the readiness probe is not part of this specification
    /\ ppc = "off"
    /\ checkInterval = 0
    /\ maxCheckTime = 0
    /\ elapsed = 0
    /\ probes = 0
    /\ firstUp = -1
    /\ probeResult = "none"
    \* the matrix scenario is not part of this specification
    /\ mpc = "off"
    /\ mIterations = 0
    /\ matrices = <<>>
    /\ expected = <<>>
    /\ mTask = <<>>
    /\ reads = {}

Running == epc \notin {"returned", "off"}

\* time passes
Tick ==
    /\ Running
    /\ now < MaxTime
    /\ now' = now + 1
    /\ UNCHANGED <<epc, iterations, callCount, checkCount, warm, batchStart,
                   batchTime, taskState, taskStart, taskOut, completed,
                   runResult>>
    /\ UNCHANGED stamps
    /\ UNCHANGED nonEngine

\* let response = benchmark.make_request(client.clone(), 0).await?;
warm_request ==
    /\ epc = "warm_request"
    /\ callCount' = callCount + 1
    /\ \E o \in RequestOutcomes(0) :
         /\ warm' = IF o.tag = "Ok" THEN warm ELSE o
         /\ CASE o.tag = "Ok" -> epc' = "warm_check" /\ UNCHANGED runResult
              [] o.tag = "Err" ->
                    epc' = "returned" /\ runResult' = RunResult("error", o, 0, 0)
              [] o.tag = "Panic" ->
                    epc' = "returned" /\ runResult' = RunResult("panic", o, 0, 0)
    /\ UNCHANGED <<iterations, now, checkCount, batchStart, batchTime,
                   taskState, taskStart, taskOut, completed>>
    /\ UNCHANGED stamps
    /\ UNCHANGED nonEngine

\* match benchmark.check_response(0, Instant::now(), response).await? {
\*     BenchmarkResult::Ok(_) => {}  other => return Ok(other) }
warm_check ==
    /\ epc = "warm_check"
    /\ checkCount' = checkCount + 1
    /\ \E o \in CheckOutcomes(0) :
         /\ warm' = o
         /\ CASE o.tag = "Err" ->
                    epc' = "returned" /\ runResult' = RunResult("error", o, 0, 0)
              [] o.tag = "Panic" ->
                    epc' = "returned" /\ runResult' = RunResult("panic", o, 0, 0)
              [] OTHER ->
                    IF WarmupPasses(o)
                    THEN epc' = "start" /\ UNCHANGED runResult
                    ELSE /\ epc' = "returned"
                         /\ runResult' = RunResult("value", o, 0, 0)
    /\ UNCHANGED <<iterations, now, callCount, batchStart, batchTime,
                   taskState, taskStart, taskOut, completed>>
    /\ warmEnd' = now
    /\ UNCHANGED lastEnd
    /\ UNCHANGED nonEngine

\* a batch clock read on entry, before the warm-up
start_clock_on_entry ==
    /\ epc = "start"
    /\ batchStart' = 0
    /\ epc' = "fanout"
    /\ UNCHANGED <<iterations, now, callCount, checkCount, warm, batchTime,
                   taskState, taskStart, taskOut, completed, runResult>>
    /\ UNCHANGED stamps
    /\ UNCHANGED nonEngine

\* let start = Instant::now();
start_clock ==
    /\ epc = "start"
    /\ batchStart' = now
    /\ epc' = "fanout"
    /\ UNCHANGED <<iterations, now, callCount, checkCount, warm, batchTime,
                   taskState, taskStart, taskOut, completed, runResult>>
    /\ UNCHANGED stamps
    /\ UNCHANGED nonEngine

\* join_all(futures) drives the map over 0..iterations: one tokio::spawn per
\* iteration, in order; when the range is exhausted it awaits the handles
fanout ==
    /\ epc = "fanout"
    /\ IF Len(taskState) < iterations
       THEN /\ taskState' = Append(taskState, "spawned")
            /\ taskStart' = Append(taskStart, 0)
            /\ taskOut' = Append(taskOut, NoOutcome)
            /\ UNCHANGED epc
       ELSE /\ epc' = "join"
            /\ UNCHANGED <<taskState, taskStart, taskOut>>
    /\ UNCHANGED <<iterations, now, callCount, checkCount, warm, batchStart,
                   batchTime, completed, runResult>>
    /\ UNCHANGED stamps
    /\ UNCHANGED nonEngine

\* a spawned task: let start = Instant::now();
task_start(i) ==
    /\ Running
    /\ i \in 1..Len(taskState)
    /\ taskState[i] = "spawned"
    /\ taskStart' = [taskStart EXCEPT ![i] = now]
    /\ taskState' = [taskState EXCEPT ![i] = "started"]
    /\ UNCHANGED <<epc, iterations, now, callCount, checkCount, warm,
                   batchStart, batchTime, taskOut, completed, runResult>>
    /\ UNCHANGED stamps
    /\ UNCHANGED nonEngine

\* let response = benchmark.make_request(client, iteration).await?;
task_request(i) ==
    /\ Running
    /\ i \in 1..Len(taskState)
    /\ taskState[i] = "started"
    /\ callCount' = callCount + 1
    /\ \E o \in RequestOutcomes(i) :
         IF o.tag = "Ok"
         THEN /\ taskState' = [taskState EXCEPT ![i] = "sent"]
              /\ UNCHANGED <<taskOut, completed, lastEnd>>
         ELSE /\ taskState' = [taskState EXCEPT ![i] = "done"]
              /\ taskOut' = [taskOut EXCEPT ![i] = o]
              /\ completed' = Append(completed, i)
              /\ lastEnd' = now
    /\ UNCHANGED <<epc, iterations, now, checkCount, warm, batchStart,
                   batchTime, taskStart, runResult, warmEnd>>
    /\ UNCHANGED nonEngine

\* benchmark.check_response(iteration, start, response).await
task_check(i) ==
    /\ Running
    /\ i \in 1..Len(taskState)
    /\ taskState[i] = "sent"
    /\ checkCount' = checkCount + 1
    /\ \E o \in CheckOutcomes(i) :
         /\ taskState' = [taskState EXCEPT ![i] = "done"]
         /\ taskOut' = [taskOut EXCEPT ![i] = o]
         /\ completed' = Append(completed, i)
    /\ lastEnd' = now
    /\ UNCHANGED <<epc, iterations, now, callCount, warm, batchStart,
                   batchTime, taskStart, runResult, warmEnd>>
    /\ UNCHANGED nonEngine

\* a fan-in that resolves as soon as one handle has (select, not join_all)
join_first ==
    /\ epc = "join"
    /\ \/ taskState = <<>>
       \/ \E i \in 1..Len(taskState) : taskState[i] = "done"
    /\ epc' = "stop_clock"
    /\ UNCHANGED <<iterations, now, callCount, checkCount, warm, batchStart,
                   batchTime, taskState, taskStart, taskOut, completed,
                   runResult>>
    /\ UNCHANGED stamps
    /\ UNCHANGED nonEngine

\* let results = join_all(futures).await: every handle has resolved
join ==
    /\ epc = "join"
    /\ \A i \in 1..Len(taskState) : taskState[i] = "done"
    /\ epc' = "stop_clock"
    /\ UNCHANGED <<iterations, now, callCount, checkCount, warm, batchStart,
                   batchTime, taskState, taskStart, taskOut, completed,
                   runResult>>
    /\ UNCHANGED stamps
    /\ UNCHANGED nonEngine

\* let time = start.elapsed(); then the loop over results and the return
reduce ==
    /\ epc = "stop_clock"
    /\ batchTime' = now - batchStart
    /\ runResult' = Reduce(taskOut, now - batchStart, iterations)
    /\ epc' = "returned"
    /\ UNCHANGED <<iterations, now, callCount, checkCount, warm, batchStart,
                   taskState, taskStart, taskOut, completed>>
    /\ UNCHANGED stamps
    /\ UNCHANGED nonEngine

NextEngine ==
    \/ Tick
    \/ warm_request
    \/ warm_check
    \/ start_clock
    \/ fanout
    \/ \E i \in 1..MaxIter : task_start(i)
    \/ \E i \in 1..MaxIter : task_request(i)
    \/ \E i \in 1..MaxIter : task_check(i)
    \/ join
    \/ reduce

SpecEngine == InitEngine /\ [][NextEngine]_vars

(***************************************************************************)
(* run_benchmarks and run_benchmark: the orchestrator                      *)
(***************************************************************************)
\* for name in ["rust-axum", "python-fastapi", "nodejs-express"]
Targets == <<"rust-axum", "python-fastapi", "nodejs-express">>
TargetNames == {Targets[i] : i \in 1..Len(Targets)}

\* the keys run_benchmark inserts its three scenario results under
Scenarios == <<"plaintext", "downloadBinary", "matrixMultiplication">>
ScenarioNames == {Scenarios[i] : i \in 1..Len(Scenarios)}

\* the name bound by the for loop
Name == Targets[tgt]

\* what a scenario (a call of run_requests) hands back: Ok(BenchmarkResult),
\* a success or a failed validation, or the Err of its warm-up
ScenarioReturns ==
    { [ret |-> "value", tag |-> "Ok", info |-> ""],
      [ret |-> "value", tag |-> "InvalidStatusCode", info |-> "500"],
      [ret |-> "error", tag |-> "Err",
       info |-> "HTTP Reqwest: connection failed"] }

\* Ok(result) => result, Err(err) => UnhandledError(format!("failed: {err}"))
Caught(r) ==
    IF r.ret = "value"
    THEN [tag |-> r.tag, info |-> r.info]
    ELSE [tag |-> "UnhandledError", info |-> "failed: " \o r.info]

\* a run that gives up its remaining scenarios once one returned Err
AfterScenarioStopsOnErr(s, r) ==
    IF r.ret = "error" THEN "stop"
    ELSE IF s = Scenarios[1] THEN Scenarios[2]
    ELSE IF s = Scenarios[2] THEN Scenarios[3]
    ELSE "stop"

\* the statement after the match on scenario s, whatever it returned
AfterScenario(s, r) ==
    IF s = Scenarios[1] THEN Scenarios[2]
    ELSE IF s = Scenarios[2] THEN Scenarios[3]
    ELSE "stop"

\* BenchmarkJsonResult
SuccessEntry(m) == [kind |-> "Success", results |-> m, error |-> ""]
ErrorEntry(msg) == [kind |-> "Error", results |-> <<>>, error |-> msg]

\* HashMap::insert
Insert(m, k, v) == (k :> v) @@ m

\* the for loop goes on to its next name, or ends
Advance ==
    IF tgt < Len(Targets)
    THEN /\ tgt' = tgt + 1
         /\ attempts' = Append(attempts, Targets[tgt + 1])
         /\ spc' = "spawn"
    ELSE /\ spc' = "write"
         /\ UNCHANGED <<tgt, attempts>>

\* run_benchmark has returned: all_results.insert(name, entry)
Record(entry) ==
    /\ allResults' = Insert(allResults, Name, entry)
    /\ recorded' = Append(recorded, Name)
    /\ scenResults' = <<>>
    /\ Advance

\* an orchestrator that hands the error on: run_benchmark(&pm, name).await?
FailPropagates(msg) ==
    /\ spc' = "failed"
    /\ scenResults' = <<>>
    /\ UNCHANGED <<tgt, attempts, allResults, recorded>>

\* a `?` in run_benchmark returns Err(err); run_benchmarks records
\* BenchmarkJsonResult::Error { error: format!("{err}") }
Fail(msg) == Record(ErrorEntry(msg))

InitSuite ==
    /\ spc = "spawn"
    /\ tgt = 1
    /\ scenResults = <<>>
    /\ allResults = <<>>
    /\ child = [n \in TargetNames |-> "none"]
    /\ suiteReg = <<>>
    /\ attempts = <<Targets[1]>>
    /\ recorded = <<>>
    /\ scenarioRuns = {}
    /\ transportFailed = {}
    \* the process manager is not part of this specification
    /\ procState = [p \in Proc |-> "Running"]
    /\ reaped = [p \in Proc |-> FALSE]
    /\ signals = [p \in Proc |-> 0]
    /\ poisoned = {}
    /\ childLock = [p \in Proc |-> NoThread]
    /\ registry = [r \in Registries |-> <<>>]
    /\ regLock = [r \in Registries |-> NoThread]
    /\ pc = [t \in Threads |-> IF t = Ctrlc THEN "h_wait" ELSE "idle"]
    /\ arg = [t \in Threads |-> NoProc]
    /\ idx = [t \in Threads |-> 0]
    /\ lockErr = [t \in Threads |-> FALSE]
    /\ cur = [t \in Threads |-> NoProc]
    /\ ret = [t \in Threads |-> "none"]
    /\ mgr = "live"
    /\ exited = FALSE
    /\ ev = NoEvent
    /\ everRegistered = {}
    /\ regAtInterrupt = {}
    /\ regAtDrop = {}
    /\ liveAtDrop = {}
    /\ regAtLock = [t \in Threads |-> <<>>]
    /\ exitedAtCall = [t \in Threads |-> FALSE]
    /\ sentInCall = [t \in Threads |-> 0]
    \* run_requests is not part of this specification
    /\ epc = "off"
    /\ iterations = 0
    /\ now = 0
    /\ callCount = 0
    /\ checkCount = 0
    /\ warm = NoOutcome
    /\ batchStart = 0
    /\ batchTime = 0
    /\ taskState = <<>>
    /\ taskStart = <<>>
    /\ taskOut = <<>>
    /\ completed = <<>>
    /\ runResult = NoRunResult
    /\ warmEnd = 0
    /\ lastEnd = 0
    \* the readiness probe is not part of this specification
    /\ ppc = "off"
    /\ checkInterval = 0
    /\ maxCheckTime = 0
    /\ elapsed = 0
    /\ probes = 0
    /\ firstUp = -1
    /\ probeResult = "none"
    \* the matrix scenario is not part of this specification
    /\ mpc = "off"
    /\ mIterations = 0
    /\ matrices = <<>>
    /\ expected = <<>>
    /\ mTask = <<>>
    /\ reads = {}

\* let child = Arc::new(Mutex::new(run_webserver(name)?));
run_webserver ==
    /\ spc = "spawn"
    /\ \/ /\ child' = [child EXCEPT ![Name] = "Running"]
          /\ spc' = "push"
          /\ UNCHANGED <<tgt, scenResults, allResults, attempts, recorded>>
       \/ /\ Fail("Docker: IO: spawn failed")
          /\ UNCHANGED child
    /\ UNCHANGED <<suiteReg, scenarioRuns, transportFailed>>
    /\ UNCHANGED nonSuite

\* pm.push(child.clone())?;  Err(Lock) is what a poisoned registry gives
rb_push ==
    /\ spc = "push"
    /\ \/ /\ suiteReg' = Append(suiteReg, Name)
          /\ spc' = "wait"
          /\ UNCHANGED <<tgt, scenResults, allResults, attempts, recorded>>
       \/ /\ Fail("Process Manager: Lock")
          /\ UNCHANGED suiteReg
    /\ UNCHANGED <<child, scenarioRuns, transportFailed>>
    /\ UNCHANGED nonSuite

\* http_wait_for_url(..).await?; sleep(1 s); let mut results = HashMap::new()
rb_wait ==
    /\ spc = "wait"
    /\ \E r \in {"Ok", "Timeout", "Reqwest"} :
         IF r = "Ok"
         THEN /\ spc' = Scenarios[1]
              /\ scenResults' = <<>>
              /\ UNCHANGED <<tgt, allResults, attempts, recorded>>
         ELSE Fail(IF r = "Timeout" THEN "HTTP: Timeout"
                   ELSE "HTTP: Reqwest: builder error")
    /\ UNCHANGED <<child, suiteReg, scenarioRuns, transportFailed>>
    /\ UNCHANGED nonSuite

\* match benchmark_xxx(n).await { Ok(result) => results.insert(key, result),
\*     Err(err) => results.insert(key, UnhandledError(..)) }
rb_scenario ==
    /\ spc \in ScenarioNames
    /\ \E r \in ScenarioReturns :
         /\ scenResults' = Insert(scenResults, spc, Caught(r))
         /\ transportFailed' = IF r.ret = "error"
                               THEN transportFailed \cup {<<Name, spc>>}
                               ELSE transportFailed
         /\ spc' = AfterScenario(spc, r)
    /\ scenarioRuns' = scenarioRuns \cup {<<Name, spc>>}
    /\ UNCHANGED <<tgt, allResults, child, suiteReg, attempts, recorded>>
    /\ UNCHANGED nonSuite

\* stop_webserver(name)?;
stop_webserver ==
    /\ spc = "stop"
    /\ \/ /\ spc' = "kill"
          /\ UNCHANGED <<tgt, scenResults, allResults, attempts, recorded>>
       \/ Fail("Docker: IO: stop failed")
    /\ UNCHANGED <<child, suiteReg, scenarioRuns, transportFailed>>
    /\ UNCHANGED nonSuite

\* pm.kill(child)?; sleep(1 s); Ok(results)
rb_kill ==
    /\ spc = "kill"
    /\ \/ /\ child' = [child EXCEPT ![Name] = "Exited"]
          /\ suiteReg' = SelectSeq(suiteReg, LAMBDA n : n # Name)
          /\ Record(SuccessEntry(scenResults))
       \/ /\ Fail("Process Manager: Lock")
          /\ UNCHANGED <<child, suiteReg>>
    /\ UNCHANGED <<scenarioRuns, transportFailed>>
    /\ UNCHANGED nonSuite

\* File::create("results.json")?; serde_json::to_writer_pretty(..)?; Ok(())
\* either way run_benchmarks returns and pm is dropped, which kills what the
\* manager still holds
rb_finish ==
    /\ spc = "write"
    /\ \E ok \in BOOLEAN : spc' = IF ok THEN "done" ELSE "failed"
    /\ child' = [n \in TargetNames |->
                    IF n \in Occupants(suiteReg) THEN "Exited" ELSE child[n]]
    /\ suiteReg' = <<>>
    /\ UNCHANGED <<tgt, scenResults, allResults, attempts, recorded,
                   scenarioRuns, transportFailed>>
    /\ UNCHANGED nonSuite

NextSuite ==
    \/ run_webserver
    \/ rb_push
    \/ rb_wait
    \/ rb_scenario
    \/ stop_webserver
    \/ rb_kill
    \/ rb_finish

SpecSuite == InitSuite /\ [][NextSuite]_vars

(***************************************************************************)
(* http_wait_for_url(url, check_interval, max_check_time)                  *)
(***************************************************************************)
InitProbe ==
    /\ ppc = "build"
    /\ checkInterval \in 1..MaxInterval
    /\ maxCheckTime \in 0..MaxWait
    /\ elapsed = 0
    /\ probes = 0
    /\ firstUp = -1
    /\ probeResult = "none"
    \* the matrix scenario is not part of this specification
    /\ mpc = "off"
    /\ mIterations = 0
    /\ matrices = <<>>
    /\ expected = <<>>
    /\ mTask = <<>>
    /\ reads = {}
    \* the process manager is not part of this specification
    /\ procState = [p \in Proc |-> "Running"]
    /\ reaped = [p \in Proc |-> FALSE]
    /\ signals = [p \in Proc |-> 0]
    /\ poisoned = {}
    /\ childLock = [p \in Proc |-> NoThread]
    /\ registry = [r \in Registries |-> <<>>]
    /\ regLock = [r \in Registries |-> NoThread]
    /\ pc = [t \in Threads |-> IF t = Ctrlc THEN "h_wait" ELSE "idle"]
    /\ arg = [t \in Threads |-> NoProc]
    /\ idx = [t \in Threads |-> 0]
    /\ lockErr = [t \in Threads |-> FALSE]
    /\ cur = [t \in Threads |-> NoProc]
    /\ ret = [t \in Threads |-> "none"]
    /\ mgr = "live"
    /\ exited = FALSE
    /\ ev = NoEvent
    /\ everRegistered = {}
    /\ regAtInterrupt = {}
    /\ regAtDrop = {}
    /\ liveAtDrop = {}
    /\ regAtLock = [t \in Threads |-> <<>>]
    /\ exitedAtCall = [t \in Threads |-> FALSE]
    /\ sentInCall = [t \in Threads |-> 0]
    \* run_requests is not part of this specification
    /\ epc = "off"
    /\ iterations = 0
    /\ now = 0
    /\ callCount = 0
    /\ checkCount = 0
    /\ warm = NoOutcome
    /\ batchStart = 0
    /\ batchTime = 0
    /\ taskState = <<>>
    /\ taskStart = <<>>
    /\ taskOut = <<>>
    /\ completed = <<>>
    /\ runResult = NoRunResult
    /\ warmEnd = 0
    /\ lastEnd = 0
    \* the orchestrator is not part of this specification
    /\ spc = "off"
    /\ tgt = 0
    /\ scenResults = <<>>
    /\ allResults = <<>>
    /\ child = [n \in {} |-> "none"]
    /\ suiteReg = <<>>
    /\ attempts = <<>>
    /\ recorded = <<>>
    /\ scenarioRuns = {}
    /\ transportFailed = {}

\* let client = Client::builder()..build()?; let start = Instant::now();
probe_build ==
    /\ ppc = "build"
    /\ \/ ppc' = "check" /\ UNCHANGED probeResult
       \/ ppc' = "returned" /\ probeResult' = "Reqwest"
    /\ UNCHANGED <<checkInterval, maxCheckTime, elapsed, probes, firstUp>>
    /\ UNCHANGED nonProbe

\* while start.elapsed() < max_check_time { .. } Err(HttpError::Timeout)
probe_check ==
    /\ ppc = "check"
    /\ IF elapsed < maxCheckTime
       THEN ppc' = "send" /\ UNCHANGED probeResult
       ELSE ppc' = "returned" /\ probeResult' = "Timeout"
    /\ UNCHANGED <<checkInterval, maxCheckTime, elapsed, probes, firstUp>>
    /\ UNCHANGED nonProbe

\* client.get(url).send().await.and_then(error_for_status).is_ok(): the
\* request takes some time, at most the client's timeout, and is_up tells
\* whether it got a non-error status; if is_up { return Ok(()) }
probe_send ==
    /\ ppc = "send"
    /\ probes' = probes + 1
    /\ \E d \in 0..MaxLatency, is_up \in BOOLEAN :
         /\ elapsed' = elapsed + d
         /\ IF is_up
            THEN /\ ppc' = "returned"
                 /\ probeResult' = "Ok"
                 /\ firstUp' = elapsed + d
            ELSE /\ ppc' = "sleep"
                 /\ UNCHANGED <<probeResult, firstUp>>
    /\ UNCHANGED <<checkInterval, maxCheckTime>>
    /\ UNCHANGED nonProbe

\* a loop that goes round without sleeping
probe_sleep_skipped ==
    /\ ppc = "sleep"
    /\ ppc' = "check"
    /\ UNCHANGED <<checkInterval, maxCheckTime, elapsed, probes, firstUp,
                   probeResult>>
    /\ UNCHANGED nonProbe

\* sleep(check_interval).await: at least check_interval passes
probe_sleep ==
    /\ ppc = "sleep"
    /\ \E late \in 0..1 : elapsed' = elapsed + checkInterval + late
    /\ ppc' = "check"
    /\ UNCHANGED <<checkInterval, maxCheckTime, probes, firstUp, probeResult>>
    /\ UNCHANGED nonProbe

NextProbe ==
    \/ probe_build
    \/ probe_check
    \/ probe_send
    \/ probe_sleep

\* the runtime keeps polling the future: a request ends by an answer or by
\* the client's timeout, and a sleep ends when its timer fires
SpecProbe == InitProbe /\ [][NextProbe]_vars /\ WF_vars(NextProbe)

(***************************************************************************)
(* benchmark_matrix_multiplication(iterations) and its Benchmark           *)
(***************************************************************************)
\* evaluating vec[k] on a Vec of length n: Rust panics unless k < n
Read(who, it, name, vec, k) ==
    [who |-> who, iteration |-> it, vec |-> name, index |-> k, len |-> Len(vec)]
Panics(rs) == \E r \in rs : r.index >= r.len

\* the element vec[k], Vecs being indexed from 0
At(vec, k) == vec[k + 1]

\* make_request: &self.matrices[iteration]; &self.matrices[iteration + 1]
\* (the second is not evaluated when the first has panicked)
MakeRequestReads(who, it) ==
    IF it < Len(matrices)
    THEN {Read(who, it, "matrices", matrices, it),
          Read(who, it, "matrices", matrices, it + 1)}
    ELSE {Read(who, it, "matrices", matrices, it)}

\* check_response: &self.expected[iteration]
CheckResponseReads(who, it) == {Read(who, it, "expected", expected, it)}

InitMatrix ==
    /\ mpc = "matrices"
    /\ mIterations \in 0..MaxFixtures
    /\ matrices = <<>>
    /\ expected = <<>>
    /\ mTask = <<>>
    /\ reads = {}
    \* the process manager is not part of this specification
    /\ procState = [p \in Proc |-> "Running"]
    /\ reaped = [p \in Proc |-> FALSE]
    /\ signals = [p \in Proc |-> 0]
    /\ poisoned = {}
    /\ childLock = [p \in Proc |-> NoThread]
    /\ registry = [r \in Registries |-> <<>>]
    /\ regLock = [r \in Registries |-> NoThread]
    /\ pc = [t \in Threads |-> IF t = Ctrlc THEN "h_wait" ELSE "idle"]
    /\ arg = [t \in Threads |-> NoProc]
    /\ idx = [t \in Threads |-> 0]
    /\ lockErr = [t \in Threads |-> FALSE]
    /\ cur = [t \in Threads |-> NoProc]
    /\ ret = [t \in Threads |-> "none"]
    /\ mgr = "live"
    /\ exited = FALSE
    /\ ev = NoEvent
    /\ everRegistered = {}
    /\ regAtInterrupt = {}
    /\ regAtDrop = {}
    /\ liveAtDrop = {}
    /\ regAtLock = [t \in Threads |-> <<>>]
    /\ exitedAtCall = [t \in Threads |-> FALSE]
    /\ sentInCall = [t \in Threads |-> 0]
    \* run_requests is not part of this specification
    /\ epc = "off"
    /\ iterations = 0
    /\ now = 0
    /\ callCount = 0
    /\ checkCount = 0
    /\ warm = NoOutcome
    /\ batchStart = 0
    /\ batchTime = 0
    /\ taskState = <<>>
    /\ taskStart = <<>>
    /\ taskOut = <<>>
    /\ completed = <<>>
    /\ runResult = NoRunResult
    /\ warmEnd = 0
    /\ lastEnd = 0
    \* the orchestrator is not part of this specification
    /\ spc = "off"
    /\ tgt = 0
    /\ scenResults = <<>>
    /\ allResults = <<>>
    /\ child = [n \in {} |-> "none"]
    /\ suiteReg = <<>>
    /\ attempts = <<>>
    /\ recorded = <<>>
    /\ scenarioRuns = {}
    /\ transportFailed = {}
    \* the readiness probe is not part of this specification
    /\ ppc = "off"
    /\ checkInterval = 0
    /\ maxCheckTime = 0
    /\ elapsed = 0
    /\ probes = 0
    /\ firstUp = -1
    /\ probeResult = "none"

\* for i in 0..(iterations + 1) { matrices.push(generate_matrix(i, ..)) }
mx_matrices ==
    /\ mpc = "matrices"
    /\ IF Len(matrices) < mIterations + 1
       THEN /\ matrices' = Append(matrices, Len(matrices))
            /\ UNCHANGED mpc
       ELSE /\ mpc' = "expected"
            /\ UNCHANGED matrices
    /\ UNCHANGED <<mIterations, expected, mTask, reads>>
    /\ UNCHANGED nonMatrix

\* for i in 0..iterations {
\*     expected.push(matrix_multiply(&matrices[i], &matrices[i + 1])) }
mx_expected ==
    /\ mpc = "expected"
    /\ IF Len(expected) < mIterations
       THEN LET i == Len(expected) IN
            /\ reads' = reads \cup
                    {Read("expected", i, "matrices", matrices, i),
                     Read("expected", i, "matrices", matrices, i + 1)}
            /\ expected' = Append(expected, <<At(matrices, i),
                                              At(matrices, i + 1)>>)
            /\ UNCHANGED mpc
       ELSE /\ mpc' = "warm_request"
            /\ UNCHANGED <<expected, reads>>
    /\ UNCHANGED <<mIterations, matrices, mTask>>
    /\ UNCHANGED nonMatrix

\* run_requests: benchmark.make_request(client.clone(), 0).await?
\* an index out of bounds panics in run_requests itself
mx_warm_request ==
    /\ mpc = "warm_request"
    /\ LET rs == MakeRequestReads("warm", 0) IN
       /\ reads' = reads \cup rs
       /\ IF Panics(rs)
          THEN mpc' = "panicked"
          ELSE \E sent \in BOOLEAN :
                  mpc' = IF sent THEN "warm_check" ELSE "returned"
    /\ UNCHANGED <<mIterations, matrices, expected, mTask>>
    /\ UNCHANGED nonMatrix

\* run_requests: benchmark.check_response(0, Instant::now(), response).await?
\* a body that is not JSON returns before expected is looked at; only
\* BenchmarkResult::Ok lets run_requests go on to spawn its tasks
mx_warm_check ==
    /\ mpc = "warm_check"
    /\ \E json \in BOOLEAN, equal \in BOOLEAN :
         IF ~json
         THEN /\ mpc' = "returned"
              /\ UNCHANGED <<reads, mTask>>
         ELSE LET rs == CheckResponseReads("warm", 0) IN
              /\ reads' = reads \cup rs
              /\ IF Panics(rs)
                 THEN mpc' = "panicked" /\ UNCHANGED mTask
                 ELSE IF equal
                 THEN /\ mpc' = "tasks"
                      /\ mTask' = [i \in 0..(mIterations - 1) |-> "spawned"]
                 ELSE mpc' = "returned" /\ UNCHANGED mTask
    /\ UNCHANGED <<mIterations, matrices, expected>>
    /\ UNCHANGED nonMatrix

\* a spawned task: benchmark.make_request(client, iteration).await?
\* a panic in a task is caught by the runtime (a JoinError)
mx_task_request(i) ==
    /\ mpc = "tasks"
    /\ i \in DOMAIN mTask
    /\ mTask[i] = "spawned"
    /\ LET rs == MakeRequestReads("task", i) IN
       /\ reads' = reads \cup rs
       /\ IF Panics(rs)
          THEN mTask' = [mTask EXCEPT ![i] = "panicked"]
          ELSE \E sent \in BOOLEAN :
                  mTask' = [mTask EXCEPT ![i] = IF sent THEN "sent" ELSE "done"]
    /\ UNCHANGED <<mpc, mIterations, matrices, expected>>
    /\ UNCHANGED nonMatrix

\* a spawned task: benchmark.check_response(iteration, start, response).await
mx_task_check(i) ==
    /\ mpc = "tasks"
    /\ i \in DOMAIN mTask
    /\ mTask[i] = "sent"
    /\ \E json \in BOOLEAN :
         IF ~json
         THEN /\ mTask' = [mTask EXCEPT ![i] = "done"]
              /\ UNCHANGED reads
         ELSE LET rs == CheckResponseReads("task", i) IN
              /\ reads' = reads \cup rs
              /\ mTask' = [mTask EXCEPT ![i] =
                               IF Panics(rs) THEN "panicked" ELSE "done"]
    /\ UNCHANGED <<mpc, mIterations, matrices, expected>>
    /\ UNCHANGED nonMatrix

\* run_requests: join_all(futures).await and the return
mx_join ==
    /\ mpc = "tasks"
    /\ \A i \in DOMAIN mTask : mTask[i] \in {"done", "panicked"}
    /\ mpc' = "returned"
    /\ UNCHANGED <<mIterations, matrices, expected, mTask, reads>>
    /\ UNCHANGED nonMatrix

NextMatrix ==
    \/ mx_matrices
    \/ mx_expected
    \/ mx_warm_request
    \/ mx_warm_check
    \/ \E i \in 0..(MaxFixtures - 1) : mx_task_request(i)
    \/ \E i \in 0..(MaxFixtures - 1) : mx_task_check(i)
    \/ mx_join

SpecMatrix == InitMatrix /\ [][NextMatrix]_vars

(***************************************************************************)
(* Properties of the process manager (checked under Spec)                  *)
(***************************************************************************)
\* the call that returned in the last step
KillReturned == ev.op = "kill"
TeardownReturned == ev.op = "kill_processes" /\ ev.thread = Main

\* s without the first slot that holds c
WithoutFirst(s, c) ==
    LET k == CHOOSE i \in 1..Len(s) :
                 s[i] = c /\ \A j \in 1..(i - 1) : s[j] # c
    IN SubSeq(s, 1, k - 1) \o SubSeq(s, k + 1, Len(s))

\* C1: when the handler installed by ProcessManager::new has run after an
\* interrupt and ended the tool process, every process that was registered
\* at the moment of the interrupt has exited.
C1_InterruptTerminatesRegistered ==
    exited => \A p \in regAtInterrupt : procState[p] = "Exited"

\* C2: when kill_processes, called by Drop, returns Ok the registry is empty
\* and every process that was registered is Exited, none is Running.
C2_TerminateAllLeavesNoneRunning ==
    (TeardownReturned /\ ev.result.tag = "Ok") =>
        /\ registry[SelfReg] = <<>>
        /\ \A p \in regAtDrop : procState[p] = "Exited"

\* teardown of a registry that held every process, one of which had already
\* exited on its own and one of which had to be killed
C2_Witness ==
    /\ TeardownReturned /\ ev.result.tag = "Ok"
    /\ regAtDrop = Proc
    /\ \E p \in regAtDrop : signals[p] = 1
    /\ \E p \in regAtDrop : signals[p] = 0

\* C3: kill of a handle that is in an occupied slot and whose process had
\* already exited returns Ok, sends no kill signal, and removes its slot.
C3_KillOfExitedProcess ==
    (KillReturned /\ ev.exitedAtCall /\ ev.child \in Occupants(ev.regBefore)) =>
        /\ ev.result.tag = "Ok"
        /\ ev.sent = 0
        /\ registry[SelfReg] = WithoutFirst(ev.regBefore, ev.child)

\* such a kill, of a process nobody ever signalled, with another slot
\* in front of it in the registry
C3_Witness ==
    /\ KillReturned /\ ev.exitedAtCall
    /\ ev.child \in Occupants(ev.regBefore)
    /\ signals[ev.child] = 0
    /\ Len(ev.regBefore) >= 2 /\ ev.regBefore[1] # ev.child
    /\ ev.result.tag = "Ok"

\* C4: kill of a handle whose process identifier is in no occupied slot
\* returns ChildNotFound with that identifier, leaves the registry as it
\* was, and signals no process.
C4_KillOfUnregisteredHandle ==
    (KillReturned /\ ev.child \notin Occupants(ev.regBefore)) =>
        /\ ev.result.tag = "ChildNotFound" /\ ev.result.pid = ev.child
        /\ registry[SelfReg] = ev.regBefore
        /\ ev.sent = 0

\* such a kill while other processes are registered, the handle's own
\* process still running
C4_Witness ==
    /\ KillReturned
    /\ ev.child \notin Occupants(ev.regBefore)
    /\ ev.regBefore # <<>>
    /\ procState[ev.child] = "Running"
    /\ ev.result.tag = "ChildNotFound"

\* C5, as claimed: kill of a handle that was registered, called after its
\* process has exited, never returns an error, also when an earlier kill of
\* the same handle succeeded.
C5_KillAfterExitNeverErrors ==
    (KillReturned /\ ev.exitedAtCall /\ ev.child \in everRegistered) =>
        ev.result.tag = "Ok"

\* C5, amended: kill called after the process has exited returns Ok as long
\* as the handle is in an occupied slot; once its slots are removed (by an
\* earlier kill of the same handle) it returns ChildNotFound.
C5_KillAfterExitErrsOnlyWhenRemoved ==
    (KillReturned /\ ev.exitedAtCall) =>
        ev.result.tag = IF ev.child \in Occupants(ev.regBefore)
                        THEN "Ok"
                        ELSE "ChildNotFound"

\* a second kill of a handle registered twice: the first one killed the
\* process, this one finds it exited and succeeds
C5_Witness ==
    /\ KillReturned /\ ev.exitedAtCall
    /\ signals[ev.child] = 1 /\ ev.sent = 0
    /\ ev.result.tag = "Ok"

\* C6: each managed process is terminated exactly once: no process is sent
\* more than one kill signal, none is signalled once its exit has been
\* observed, Exited is never left, and when Drop has finished every process
\* that was ever registered is Exited.
C6_TerminatedExactlyOnce ==
    /\ [](\A p \in Proc : signals[p] <= 1)
    /\ [][\A p \in Proc :
            /\ signals'[p] # signals[p] => ~reaped[p]
            /\ procState[p] = "Exited" => procState'[p] = "Exited"]_vars
    /\ [](mgr = "dropped" =>
            \A p \in everRegistered : procState[p] = "Exited")

\* teardown finished after one process was killed by an explicit kill and
\* another by the teardown itself
C6_Witness ==
    /\ mgr = "dropped"
    /\ \E p \in everRegistered \ regAtDrop : signals[p] = 1
    /\ \E p \in regAtDrop : signals[p] = 1

\* C7: a live process identifier appears in at most one occupied slot.
C7_LivePidInAtMostOneSlot ==
    \A i, j \in 1..Len(registry[SelfReg]) :
        (i # j /\ procState[registry[SelfReg][i]] = "Running") =>
            registry[SelfReg][i] # registry[SelfReg][j]

(***************************************************************************)
(* Properties of run_requests (checked under SpecEngine)                   *)
(***************************************************************************)
RunReturned == epc = "returned"

\* the warm-up check produced a BenchmarkResult other than Ok
WarmupFailed == warm.tag \in {"InvalidStatusCode", "InvalidResponse"}

\* the warm-up and every task produced BenchmarkResult::Ok
AllSucceeded ==
    /\ warm.tag = "Ok"
    /\ Len(taskOut) = iterations
    /\ \A i \in 1..Len(taskOut) : taskOut[i].tag = "Ok"

\* task k produced InvalidResponse, every other invocation succeeded
OnlyFailure(k) ==
    /\ warm.tag = "Ok"
    /\ k \in 1..Len(taskOut)
    /\ taskOut[k].tag = "InvalidResponse"
    /\ \A i \in 1..Len(taskOut) : i # k => taskOut[i].tag = "Ok"

\* C8: if the warm-up returns a non-Success outcome, run_requests returns
\* exactly that outcome, no task is launched, and the scenario has been
\* invoked exactly once.
C8_FailedWarmupIsReturned ==
    (RunReturned /\ WarmupFailed) =>
        /\ runResult.ret = "value" /\ runResult.out = warm
        /\ taskState = <<>>
        /\ callCount = 1 /\ checkCount = 1

\* a run asked for the largest batch whose warm-up got a wrong status
C8_Witness ==
    /\ RunReturned
    /\ warm.tag = "InvalidStatusCode"
    /\ iterations = MaxIter

\* C9: for every N >= 0, when every invocation succeeds run_requests
\* returns Success with iterations = N and an elapsed time >= 0.
C9_AllSuccessIsSuccess ==
    (RunReturned /\ AllSucceeded) =>
        /\ runResult.ret = "value" /\ runResult.out.tag = "Ok"
        /\ runResult.iterations = iterations
        /\ runResult.time >= 0

\* a successful run of an empty batch
C9_Witness ==
    /\ RunReturned /\ AllSucceeded
    /\ iterations = 0
    /\ runResult.out.tag = "Ok"

\* C10, as claimed: if exactly one task returns InvalidResponse and every
\* other invocation succeeds, run_requests returns that InvalidResponse and
\* the scenario call counter equals N.
C10_OneFailureCounterIsN ==
    \A k \in 1..MaxIter :
        (RunReturned /\ OnlyFailure(k)) =>
            /\ runResult.ret = "value" /\ runResult.out = taskOut[k]
            /\ callCount = iterations

\* C10, amended: ... and the scenario call counter equals N + 1, the
\* warm-up and the N tasks, each of them run to its end.
C10_OneFailureCounterIsNPlusOne ==
    \A k \in 1..MaxIter :
        (RunReturned /\ OnlyFailure(k)) =>
            /\ runResult.ret = "value" /\ runResult.out = taskOut[k]
            /\ callCount = iterations + 1
            /\ checkCount = iterations + 1

\* the failing task is not the first of the batch and finished first
C10_Witness ==
    /\ RunReturned
    /\ \E k \in 2..MaxIter : OnlyFailure(k) /\ completed[1] = k

\* the warm-up request and its check both succeeded
WarmupSucceeded == warm.tag = "Ok"

\* the tasks whose outcome is not BenchmarkResult::Ok
FailedTasks == {i \in 1..Len(taskOut) : taskOut[i].tag \notin {"Ok", "none"}}

\* the failed task with the lowest iteration index
LowestFailed == CHOOSE i \in FailedTasks : \A j \in FailedTasks : i <= j

\* the failed task that finished before every other failed task
EarliestFailed ==
    completed[CHOOSE k \in 1..Len(completed) :
                  /\ completed[k] \in FailedTasks
                  /\ \A j \in 1..(k - 1) : completed[j] \notin FailedTasks]

\* C11: once the warm-up has succeeded, run_requests gets past its fan-in,
\* and returns, only when every one of the N spawned tasks has finished,
\* whatever the tasks produce; while a task has not finished the fan-in
\* stays where it is.
C11_ReturnsAfterEveryTask ==
    /\ []((WarmupSucceeded /\ epc \in {"stop_clock", "returned"}) =>
            /\ Len(taskState) = iterations
            /\ \A i \in 1..Len(taskState) : taskState[i] = "done")
    /\ [][(epc = "join" /\ \E i \in 1..Len(taskState) : taskState[i] # "done")
            => epc' = "join"]_vars

\* a full batch whose first task to finish had failed, the rest finishing
\* after it
C11_Witness ==
    /\ RunReturned /\ WarmupSucceeded
    /\ iterations = MaxIter
    /\ completed[1] \in FailedTasks
    /\ Len(completed) = MaxIter

FoldedMessages ==
    {"one or more requests failed: " \o o.info :
        o \in CheckOutcomes(0) \cup RequestOutcomes(0)}

\* C13, as claimed: whatever the kind of the failure, validation or
\* irrecoverable, run_requests returns the same kind of outcome, an
\* InvalidResponse "one or more requests failed".
C13_FailuresAreFolded ==
    (RunReturned /\ WarmupSucceeded /\ FailedTasks # {}) =>
        /\ runResult.out.tag = "InvalidResponse"
        /\ runResult.out.info \in FoldedMessages

\* C13, amended: a task's Err or panic is returned as InvalidResponse "one
\* or more requests failed: <error>"; a task's validation failure is
\* returned as it is, InvalidStatusCode or InvalidResponse with its own
\* content.
C13_OnlyErrorsAreFolded ==
    (RunReturned /\ WarmupSucceeded /\ FailedTasks # {}) =>
        LET o == taskOut[LowestFailed] IN
        IF o.tag \in {"Err", "Panic"}
        THEN /\ runResult.out.tag = "InvalidResponse"
             /\ runResult.out.info = "one or more requests failed: " \o o.info
        ELSE runResult.out = o

\* a wrong status in the first task and a panic in another: the status comes
\* back
C13_Witness ==
    /\ RunReturned /\ WarmupSucceeded
    /\ FailedTasks # {}
    /\ taskOut[LowestFailed].tag = "InvalidStatusCode"
    /\ \E i \in FailedTasks : taskOut[i].tag = "Panic"
    /\ runResult.out.tag = "InvalidStatusCode"

\* C14: an Err of the warm-up request or of the warm-up check leaves
\* run_requests as Err with no task spawned; once the warm-up has succeeded
\* run_requests returns Ok(BenchmarkResult), never Err, whatever happens in
\* the tasks.
C14_FailureAsymmetry ==
    /\ (RunReturned /\ warm.tag = "Err") =>
          /\ runResult.ret = "error" /\ runResult.out = warm
          /\ taskState = <<>>
    /\ (RunReturned /\ WarmupSucceeded) => runResult.ret = "value"

\* a batch in which one task got Err from its request and another panicked
C14_Witness ==
    /\ RunReturned /\ WarmupSucceeded
    /\ \E i \in FailedTasks : taskOut[i].tag = "Err"
    /\ \E i \in FailedTasks : taskOut[i].tag = "Panic"
    /\ runResult.ret = "value"

(***************************************************************************)
(* Properties of the orchestrator (checked under SpecSuite)                *)
(***************************************************************************)
\* the for loop of run_benchmarks is over
SuiteOver == spc \in {"write", "done", "failed"}

\* position of scenario s in run_benchmark
ScenarioIndex(s) == CHOOSE i \in 1..Len(Scenarios) : Scenarios[i] = s

\* C15: run_benchmarks calls run_benchmark for every target of its list, in
\* the order of the list, and inserts exactly one entry per target, whatever
\* an earlier target's run returned; a run that did not get to the end of
\* run_benchmark is recorded as an Error entry, one that did as Success.
C15_EveryTargetAttemptedAndRecorded ==
    /\ attempts = SubSeq(Targets, 1, tgt)
    /\ recorded = SubSeq(Targets, 1, IF SuiteOver THEN tgt ELSE tgt - 1)
    /\ DOMAIN allResults = Occupants(recorded)
    /\ SuiteOver => (attempts = Targets /\ recorded = Targets)
    /\ spc \notin {"done", "failed"} =>
          \A n \in DOMAIN allResults :
              allResults[n].kind =
                  IF child[n] = "Exited" THEN "Success" ELSE "Error"

\* the first target timed out in its readiness probe, the second could not
\* be spawned, the third was benchmarked
C15_Witness ==
    /\ spc = "done"
    /\ allResults[Targets[1]] = ErrorEntry("HTTP: Timeout")
    /\ allResults[Targets[2]].kind = "Error"
    /\ child[Targets[2]] = "none"
    /\ allResults[Targets[3]].kind = "Success"

\* C16, as claimed: once a scenario of a target has returned the Err of its
\* warm-up, no later scenario is run against that target, the target is
\* recorded as an Error entry, and the other targets are still benchmarked.
C16_TransportFailureAbortsTarget ==
    /\ \A p \in transportFailed :
          /\ \A q \in scenarioRuns :
                q[1] = p[1] => ScenarioIndex(q[2]) <= ScenarioIndex(p[2])
          /\ p[1] \in DOMAIN allResults => allResults[p[1]].kind = "Error"
    /\ SuiteOver => recorded = Targets

\* C16, amended: the Err of a scenario's warm-up is caught in run_benchmark
\* and recorded as that scenario's UnhandledError("failed: <error>"); the
\* remaining scenarios are still run against the target; the target is
\* recorded with its results map unless stop_webserver or pm.kill then
\* fails; the other targets are still benchmarked.
C16_TransportFailureIsOneScenarioResult ==
    /\ \A p \in transportFailed :
          p[1] \in DOMAIN allResults =>
              LET e == allResults[p[1]] IN
              /\ \A s \in ScenarioNames : <<p[1], s>> \in scenarioRuns
              /\ e.kind = "Success" =>
                    /\ DOMAIN e.results = ScenarioNames
                    /\ e.results[p[2]] =
                          [tag |-> "UnhandledError",
                           info |-> "failed: HTTP Reqwest: connection failed"]
              /\ e.kind = "Error" =>
                    e.error \in {"Docker: IO: stop failed",
                                 "Process Manager: Lock"}
    /\ SuiteOver => recorded = Targets

\* the first scenario of the first target failed in its warm-up, its second
\* scenario succeeded, and the last target was benchmarked too
C16_Witness ==
    /\ spc = "done"
    /\ <<Targets[1], Scenarios[1]>> \in transportFailed
    /\ allResults[Targets[1]].kind = "Success"
    /\ allResults[Targets[1]].results[Scenarios[2]].tag = "Ok"
    /\ allResults[Targets[3]].kind = "Success"

(***************************************************************************)
(* Properties of the readiness probe (checked under SpecProbe)             *)
(***************************************************************************)
ProbeReturned == ppc = "returned"

\* the least number of intervals that cover max_check_time
Ceil(a, b) == (a + b - 1) \div b

\* C17, as claimed: http_wait_for_url always returns; unless a request of
\* it succeeded by the time max_check_time had elapsed it returns Timeout,
\* after no more than ceil(max_check_time / check_interval) + 1 requests;
\* it returns Ok as soon as one request succeeds.
C17_TimeoutUnlessUpWithinMaxWait ==
    /\ <>ProbeReturned
    /\ []((ProbeReturned /\ probeResult # "Reqwest") =>
            /\ (firstUp = -1 \/ firstUp > maxCheckTime) =>
                   probeResult = "Timeout"
            /\ probes <= Ceil(maxCheckTime, checkInterval) + 1)
    /\ [][firstUp' # -1 => (ppc' = "returned" /\ probeResult' = "Ok")]_vars

\* C17, amended: http_wait_for_url always returns: the client's build error
\* before any request; Ok as soon as one request succeeds, also when that
\* request was sent before max_check_time had elapsed and succeeds after
\* it; Timeout when no request succeeded, and then max_check_time has
\* elapsed. It never sends more than
\* ceil(max_check_time / check_interval) + 1 requests.
C17_TimeoutUnlessARequestSucceeds ==
    /\ <>ProbeReturned
    /\ [](ProbeReturned =>
            /\ probeResult = "Reqwest" => probes = 0
            /\ probeResult = "Ok" <=> firstUp # -1
            /\ probeResult = "Timeout" =>
                  (firstUp = -1 /\ elapsed >= maxCheckTime)
            /\ probeResult \in {"Reqwest", "Ok", "Timeout"})
    /\ [](probes <= Ceil(maxCheckTime, checkInterval) + 1)
    /\ [][firstUp' # -1 => (ppc' = "returned" /\ probeResult' = "Ok")]_vars

\* a probe that gave up after as many requests as its deadline allows, each
\* of them answered at once
C17_Witness ==
    /\ ProbeReturned /\ probeResult = "Timeout"
    /\ maxCheckTime = MaxWait /\ checkInterval = 1
    /\ probes = Ceil(maxCheckTime, checkInterval)

(***************************************************************************)
(* Locking discipline of the process manager (checked under Spec)          *)
(***************************************************************************)
\* thread t holds the lock of the registry it works on
HoldsRegistry(t) == regLock[RegOf(t)] = t

\* C18: a thread that signals a removed process, or blocks until it has
\* exited, does not hold the registry lock: kill and kill_processes have
\* released it after removing the slot.
C18_RegistryLockNotHeldAcrossWait ==
    \A t \in Threads : pc[t] \in {"kp_kill", "kp_wait"} => ~HoldsRegistry(t)

\* C19: no thread holds the registry lock and the lock of a child at the
\* same time.
C19_NoNestedLocking ==
    \A t \in Threads :
        ~(HoldsRegistry(t) /\ \E p \in Proc : childLock[p] = t)

(***************************************************************************)
(* Teardown among poisoned children (checked under SpecPoison)             *)
(***************************************************************************)
\* kill_processes has returned Err(Lock) in the last step
TeardownAborted == ev.op = "kill_processes" /\ ev.result.tag = "Lock"

\* C20: when kill_process of a popped entry returns the Lock error,
\* kill_processes returns it at once: the entries in front of the popped
\* one are still in the registry, the popped one is not, and every process
\* of a remaining entry that was running when the teardown began is still
\* running, unless it has exited on its own.
C20_AbortLeavesTheRestRunning ==
    TeardownAborted =>
        LET r == registry[RegOf(ev.thread)] IN
        /\ Len(r) < Len(ev.regBefore)
        /\ r = SubSeq(ev.regBefore, 1, Len(r))
        /\ ev.child = ev.regBefore[Len(r) + 1]
        /\ \A i \in 1..Len(r) :
              r[i] \in liveAtDrop =>
                  (procState[r[i]] = "Running" \/ signals[r[i]] = 0)

\* the run got past its warm-up: the batch clock has been read
ClockStarted == epc \in {"fanout", "join", "stop_clock"} \/
                (epc = "returned" /\ warm.tag = "Ok")

\* C21: in run_requests the warm-up request and its validation are over
\* before the batch clock is read; no task exists before the batch clock is
\* read; each task reads its own clock no earlier than the batch clock and
\* before it issues its request; and the batch clock is stopped only when
\* every task has finished, so that the reported time spans every task from
\* its start to its end and starts no earlier than the end of the warm-up.
C21_BatchClockBracketsTheTasks ==
    /\ [](/\ (~ClockStarted => taskState = <<>>)
          /\ (ClockStarted => warmEnd <= batchStart)
          /\ \A i \in 1..Len(taskState) :
                taskState[i] # "spawned" =>
                    (batchStart <= taskStart[i] /\ taskStart[i] <= now)
          /\ (epc \in {"stop_clock", "returned"} /\ ClockStarted =>
                /\ Len(taskState) = iterations
                /\ \A i \in 1..Len(taskState) : taskState[i] = "done"
                /\ (epc = "returned" =>
                       /\ \A i \in 1..Len(taskState) :
                             taskStart[i] <= lastEnd
                       /\ lastEnd <= batchStart + batchTime
                       /\ (runResult.out.tag = "Ok" =>
                              runResult.time = batchTime))))
    /\ [][/\ now' >= now
          /\ \A i \in 1..Len(taskState) :
                \* the request is issued with the task's clock already read
                /\ (taskState[i] = "spawned" =>
                       taskState'[i] \in {"spawned", "started"})
                \* a task finishes while the batch clock runs
                /\ (taskState[i] # "done" /\ taskState'[i] = "done" =>
                       /\ epc \in {"fanout", "join"}
                       /\ taskStart[i] <= now
                       /\ lastEnd' = now)]_vars

\* a full batch returned with success, time having passed during the
\* warm-up and between the batch clock and the end of the last task
C21_Witness ==
    /\ epc = "returned" /\ warm.tag = "Ok"
    /\ runResult.out.tag = "Ok"
    /\ iterations = MaxIter
    /\ warmEnd > 0
    /\ lastEnd > batchStart
    /\ taskStart[1] # taskStart[MaxIter]
    /\ batchTime = lastEnd - batchStart

(***************************************************************************)
(* One target at a time (checked under SpecSuite)                          *)
(***************************************************************************)
\* the targets whose subprocess is running
RunningTargets == {n \in TargetNames : child[n] = "Running"}

\* C22: whatever path run_benchmark took, a target whose result has been
\* recorded has had its subprocess stopped and its entry removed from the
\* registry, so that when the next target is spawned the one before it is
\* gone; at most one target subprocess is running at any time.
C22_StoppedBeforeRecordedAndNextSpawn ==
    /\ \A n \in Occupants(recorded) :
          /\ child[n] # "Running"
          /\ n \notin Occupants(suiteReg)
    /\ Cardinality(RunningTargets) <= 1

\* the readiness probe of the first target timed out, its subprocess is
\* still running and registered, and the second target has been spawned
C22_TimeoutLeavesTargetRunning ==
    /\ Targets[1] \in DOMAIN allResults
    /\ allResults[Targets[1]] = ErrorEntry("HTTP: Timeout")
    /\ Targets[1] \in Occupants(suiteReg)
    /\ RunningTargets = {Targets[1], Targets[2]}

(***************************************************************************)
(* Fixture indices of the matrix scenario (checked under SpecMatrix)       *)
(***************************************************************************)
\* the index expressions evaluated by the warm-up and by the tasks
RunReads == {r \in reads : r.who \in {"warm", "task"}}

\* C23: for every iteration count N >= 0, no index expression of the
\* warm-up (iteration 0) or of a task i in 0..N-1 is out of bounds:
\* make_request reads matrices[i] and matrices[i+1] with i+1 < |matrices|
\* = N+1, check_response reads expected[i] with i < |expected| = N, and so
\* neither run_requests nor a task panics on an index.
C23_FixtureIndicesInBounds ==
    /\ mpc # "panicked"
    /\ \A i \in DOMAIN mTask : mTask[i] # "panicked"
    /\ \A r \in RunReads :
          /\ r.index < r.len
          /\ r.vec = "matrices" =>
                (r.index \in {r.iteration, r.iteration + 1}
                    /\ r.len = mIterations + 1)
          /\ r.vec = "expected" =>
                (r.index = r.iteration /\ r.len = mIterations)

\* with N = 0 the warm-up has read matrices[1] of a one-element Vec
C23_WarmupPanicsOnZeroIterations ==
    /\ mIterations = 0
    /\ mpc = "panicked"
    /\ Read("warm", 0, "matrices", matrices, 1) \in reads
    /\ Len(matrices) = 1

(***************************************************************************)
(* Progress of the manager's calls (checked under SpecFair)                *)
(***************************************************************************)
\* thread t is inside push, kill, kill_processes or kill_process
InCall(t) == pc[t] \in {"kill_lock", "kill_scan", "kp_lock", "kp_try_wait",
                         "kp_kill", "kp_wait", "kps_lock", "kps_pop"}

====
